---- MODULE Spec2Model ----
(***************************************************************************)
(* Model of stactools-packages/ga-dlcd: the raster converter (cog.py),     *)
(* the filename-driven Item builder (stac.py), the constant tables         *)
(* (constants.py) and the command orchestration (commands.py).             *)
(*                                                                         *)
(* Strings the code inspects character by character (file names, paths,    *)
(* version tokens, titles) are sequences of one-character strings.         *)
(*                                                                         *)
(* An intermediate value that is used many times is bound by applying a    *)
(* function on the singleton of that value, [x \in {v} |-> ...][v], so     *)
(* that it is computed once where it is bound and not once per use.        *)
(***************************************************************************)
EXTENDS Integers, Sequences, FiniteSets, TLC

(***************************************************************************)
(* Python built-ins used by the code                                       *)
(***************************************************************************)

Digits == {"0", "1", "2", "3", "4", "5", "6", "7", "8", "9"}

\* int() of one decimal digit
DigitVal(c) ==
  CASE c = "0" -> 0 [] c = "1" -> 1 [] c = "2" -> 2 [] c = "3" -> 3
    [] c = "4" -> 4 [] c = "5" -> 5 [] c = "6" -> 6 [] c = "7" -> 7
    [] c = "8" -> 8 [] c = "9" -> 9

DigitChar(n) ==
  CASE n = 0 -> "0" [] n = 1 -> "1" [] n = 2 -> "2" [] n = 3 -> "3"
    [] n = 4 -> "4" [] n = 5 -> "5" [] n = 6 -> "6" [] n = 7 -> "7"
    [] n = 8 -> "8" [] n = 9 -> "9"

\* int(s) for a string of decimal digits
RECURSIVE int(_)
int(s) ==
  IF Len(s) = 0 THEN 0
  ELSE 10 * int(SubSeq(s, 1, Len(s) - 1)) + DigitVal(s[Len(s)])

\* str(n) for a non-negative integer: decimal, no padding
RECURSIVE str(_)
str(n) ==
  IF n < 10 THEN <<DigitChar(n)>>
  ELSE str(n \div 10) \o <<DigitChar(n % 10)>>

\* s.startswith(p, i-1): p occurs in s at (1-based) position i
StartsAt(s, p, i) ==
  /\ i >= 1
  /\ i + Len(p) - 1 <= Len(s)
  /\ \A k \in 1..Len(p) : s[i + k - 1] = p[k]

\* s.endswith(p)
endswith(s, p) == Len(p) <= Len(s) /\ StartsAt(s, p, Len(s) - Len(p) + 1)

\* p in s
Contains(s, p) == \E i \in 1..(Len(s) + 1) : StartsAt(s, p, i)

\* s.replace(old, new) for non-empty old: leftmost non-overlapping occurrences
RECURSIVE ReplaceFrom(_, _, _, _)
ReplaceFrom(s, old, new, i) ==
  IF i > Len(s) THEN <<>>
  ELSE IF StartsAt(s, old, i)
       THEN new \o ReplaceFrom(s, old, new, i + Len(old))
       ELSE <<s[i]>> \o ReplaceFrom(s, old, new, i + 1)

replace(s, old, new) == [t \in {s} |-> ReplaceFrom(t, old, new, 1)][s]

\* os.path.basename(p): what follows the last "/"
basename(p) ==
  [q \in {p} |->
     LET slashes == {i \in 1..Len(q) : q[i] = "/"}
         last    == IF slashes = {} THEN 0
                    ELSE CHOOSE i \in slashes : \A j \in slashes : j <= i
     IN  SubSeq(q, last + 1, Len(q))][p]

\* os.path.dirname(p)
dirname(p) == SubSeq(p, 1, Len(p) - Len(basename(p)) - 1)

\* os.path.join(d, name) for a relative name
join(d, name) ==
  IF Len(d) = 0 \/ d[Len(d)] = "/" THEN d \o name ELSE d \o <<"/">> \o name

(***************************************************************************)
(* stac.py: the filename pattern of create_item                            *)
(***************************************************************************)

EXT_TIF == <<".", "t", "i", "f">>

EXT_JSON == <<".", "j", "s", "o", "n">>

\* the literal "DLCD_v" of the pattern
RE_PREFIX == <<"D", "L", "C", "D", "_", "v">>

\* the literal "_MODIS_EVI_" of the pattern
RE_TAG == <<"_", "M", "O", "D", "I", "S", "_", "E", "V", "I", "_">>

\* \d x n at position i
DigitsAt(s, i, n) ==
  /\ i >= 1
  /\ i + n - 1 <= Len(s)
  /\ \A k \in i..(i + n - 1) : s[k] \in Digits

\* length of the maximal run of digits starting at position i (greedy \d+)
RECURSIVE DigitRun(_, _)
DigitRun(s, i) ==
  IF i <= Len(s) /\ s[i] \in Digits THEN 1 + DigitRun(s, i + 1) ELSE 0

\* _MODIS_EVI_(\d+)_(\d\d\d\d)(\d\d)(\d\d)-(\d\d\d\d)(\d\d)(\d\d) matches at k.
\* \d+ is followed by the non-digit "_", so its only possible extent is the
\* maximal run of digits.
TailAt(s, k) ==
  /\ StartsAt(s, RE_TAG, k)
  /\ \E u \in {k + Len(RE_TAG) + DigitRun(s, k + Len(RE_TAG))} :
       /\ u > k + Len(RE_TAG)
       /\ StartsAt(s, <<"_">>, u)
       /\ DigitsAt(s, u + 1, 8)
       /\ StartsAt(s, <<"-">>, u + 9)
       /\ DigitsAt(s, u + 10, 8)

\* positions k where (.+) may end (exclusive) for a match starting at i:
\* (.+) is at least one character, none of them a newline
TagPositions(s, i) ==
  {k \in (i + Len(RE_PREFIX) + 1)..Len(s) :
      /\ TailAt(s, k)
      /\ \A j \in (i + Len(RE_PREFIX))..(k - 1) : s[j] # "\n"}

MatchAt(s, i) == StartsAt(s, RE_PREFIX, i) /\ TagPositions(s, i) # {}

NoMatch == [matched |-> FALSE, groups |-> <<>>]

\* re.search(r"DLCD_v(.+)_MODIS_EVI_(\d+)_(\d\d\d\d)(\d\d)(\d\d)-(\d\d\d\d)(\d\d)(\d\d)", s):
\* leftmost start, (.+) greedy
\* the groups of the match of s that starts at i with (.+) ending before k
Groups(s, i, k) ==
  [u \in {k + Len(RE_TAG) + DigitRun(s, k + Len(RE_TAG))} |->
     << SubSeq(s, i + Len(RE_PREFIX), k - 1),
        SubSeq(s, k + Len(RE_TAG), u - 1),
        SubSeq(s, u + 1, u + 4),
        SubSeq(s, u + 5, u + 6),
        SubSeq(s, u + 7, u + 8),
        SubSeq(s, u + 10, u + 13),
        SubSeq(s, u + 14, u + 15),
        SubSeq(s, u + 16, u + 17) >>
  ][k + Len(RE_TAG) + DigitRun(s, k + Len(RE_TAG))]

Min(S) == CHOOSE x \in S : \A y \in S : x <= y

Max(S) == CHOOSE x \in S : \A y \in S : y <= x

re_search(s) ==
  [t \in {s} |->
     IF \A i \in 1..Len(t) : ~MatchAt(t, i) THEN NoMatch
     ELSE [i \in {Min({x \in 1..Len(t) : MatchAt(t, x)})} |->
             [matched |-> TRUE,
              groups  |-> Groups(t, i, Max(TagPositions(t, i)))]
          ][Min({x \in 1..Len(t) : MatchAt(t, x)})]
  ][s]

(***************************************************************************)
(* datetime and timedelta, as create_item uses them                        *)
(***************************************************************************)

IsLeap(y) == (y % 4 = 0) /\ ((y % 100 # 0) \/ (y % 400 = 0))

DaysInMonth(y, m) ==
  IF m = 2 THEN (IF IsLeap(y) THEN 29 ELSE 28)
  ELSE IF m \in {4, 6, 9, 11} THEN 30 ELSE 31

\* datetime(y, m, d, tzinfo=timezone.utc) raises ValueError outside these
ValidDate(y, m, d) ==
  /\ y >= 1 /\ y <= 9999
  /\ m >= 1 /\ m <= 12
  /\ d >= 1 /\ d <= DaysInMonth(y, m)

datetime(y, m, d, tz) ==
  [year |-> y, month |-> m, day |-> d,
   hour |-> 0, minute |-> 0, second |-> 0, tzinfo |-> tz]

\* dt + timedelta(days=1); beyond year 9999 Python raises OverflowError,
\* which AddDayOverflows reports
AddDayOverflows(dt) ==
  dt.year = 9999 /\ dt.month = 12 /\ dt.day = 31

AddDay(dt) ==
  IF dt.day < DaysInMonth(dt.year, dt.month)
  THEN [dt EXCEPT !.day = dt.day + 1]
  ELSE IF dt.month < 12
       THEN [dt EXCEPT !.day = 1, !.month = dt.month + 1]
       ELSE [dt EXCEPT !.day = 1, !.month = 1, !.year = dt.year + 1]

\* the day before (y, m, d), for y > 1 or not 1 January
PrevDay(dt) ==
  IF dt.day > 1 THEN [dt EXCEPT !.day = dt.day - 1]
  ELSE IF dt.month > 1
       THEN [dt EXCEPT !.month = dt.month - 1,
                       !.day = DaysInMonth(dt.year, dt.month - 1)]
       ELSE [dt EXCEPT !.year = dt.year - 1, !.month = 12, !.day = 31]

\* dt - timedelta(seconds=1)
SubSecond(dt) ==
  IF dt.second > 0 THEN [dt EXCEPT !.second = dt.second - 1]
  ELSE IF dt.minute > 0
       THEN [dt EXCEPT !.minute = dt.minute - 1, !.second = 59]
       ELSE IF dt.hour > 0
            THEN [dt EXCEPT !.hour = dt.hour - 1, !.minute = 59, !.second = 59]
            ELSE [PrevDay(dt) EXCEPT !.hour = 23, !.minute = 59, !.second = 59]

\* dt1 < dt2 for two aware datetimes in the same zone
Earlier(a, b) ==
  LET ta == <<a.year, a.month, a.day, a.hour, a.minute, a.second>>
      tb == <<b.year, b.month, b.day, b.hour, b.minute, b.second>>
  IN  \E i \in 1..6 : /\ ta[i] < tb[i]
                      /\ \A j \in 1..(i - 1) : ta[j] = tb[j]

\* zero-padded decimal of width w
RECURSIVE Pad(_, _)
Pad(n, w) ==
  IF w = 0 THEN <<>> ELSE Pad(n \div 10, w - 1) \o <<DigitChar(n % 10)>>

\* pystac's datetime_to_str: isoformat() with "+00:00" written as "Z"
datetime_to_str(dt) ==
  Pad(dt.year, 4) \o <<"-">> \o Pad(dt.month, 2) \o <<"-">> \o Pad(dt.day, 2)
    \o <<"T">> \o Pad(dt.hour, 2) \o <<":">> \o Pad(dt.minute, 2)
    \o <<":">> \o Pad(dt.second, 2)
    \o (IF dt.tzinfo = "UTC" THEN <<"Z">> ELSE <<>>)

(***************************************************************************)
(* constants.py                                                            *)
(***************************************************************************)

GADLCD_ID == "GA-DLCD"

GADLCD_VERSION == <<"2", ".", "1">>

GADLCD_EPSG == 4326

GADLCD_CRS_WKT == "CRS.from_epsg(4326).to_wkt()"

GADLCD_TITLE == "Geoscience Australia Dynamic Land Cover Change"

GADLCD_DESC == "GA DLCD dataset shows land covers for Australia clustered into 22 classes."

DESCRIPTION == "The Dynamic Land Cover Dataset uses a standard land cover classification to show the change in behaviour of land cover across Australia. The DLCD includes data for every 250m by 250m area on the ground, for the period 2001 to 2015."

\* [110.0, -45.004798, 155.009189, -10.0], each bound as its literal
GADLCD_BOUNDING_BOX == <<"110.0", "-45.004798", "155.009189", "-10.0">>

GADLCD_START_YEAR == 2002

GADLCD_END_YEAR == 2015

NO_DATA_VALUE == 0

\* the dict literal, in insertion order: <<pixel value, class name>>
CLASSIFICATION_VALUES ==
  << <<0, "No Data">>,
     <<2, "Mines and Quarries">>,
     <<35, "Urban Areas">>,
     <<3, "Lakes and dams">>,
     <<4, "Salt lakes">>,
     <<5, "Irrigated cropping">>,
     <<8, "Rain fed cropping">>,
     <<6, "Irrigated pasture">>,
     <<9, "Rain fed pasture">>,
     <<7, "Irrigated sugar">>,
     <<10, "Rain fed sugar">>,
     <<11, "Wetlands">>,
     <<15, "Alpine meadows">>,
     <<16, "Open Hummock Grassland">>,
     <<14, "Closed Tussock Grassland">>,
     <<18, "Open Tussock Grassland">>,
     <<19, "Scattered shrubs and grasses">>,
     <<24, "Dense Shrubland">>,
     <<25, "Open Shrubland">>,
     <<31, "Closed Forest">>,
     <<32, "Open Forest">>,
     <<34, "Woodland">>,
     <<33, "Open Woodland">> >>

\* the dict literal, in insertion order: <<pixel value, RGBA>>
COLOUR_MAP ==
  << <<0, <<0, 0, 0, 0>>>>,
     <<1, <<130, 130, 130, 255>>>>,
     <<35, <<200, 200, 200, 255>>>>,
     <<3, <<0, 70, 173, 255>>>>,
     <<4, <<150, 225, 255, 255>>>>,
     <<5, <<90, 36, 90, 255>>>>,
     <<8, <<198, 141, 153, 255>>>>,
     <<6, <<166, 38, 170, 255>>>>,
     <<9, <<226, 194, 199, 255>>>>,
     <<7, <<183, 18, 52, 255>>>>,
     <<10, <<219, 77, 105, 255>>>>,
     <<11, <<0, 178, 160, 255>>>>,
     <<15, <<255, 255, 255, 255>>>>,
     <<16, <<255, 255, 115, 255>>>>,
     <<14, <<255, 121, 0, 255>>>>,
     <<18, <<255, 169, 82, 255>>>>,
     <<19, <<255, 255, 190, 255>>>>,
     <<24, <<175, 136, 80, 255>>>>,
     <<25, <<193, 168, 117, 255>>>>,
     <<31, <<0, 133, 0, 255>>>>,
     <<32, <<20, 194, 0, 255>>>>,
     <<34, <<186, 232, 96, 255>>>>,
     <<33, <<214, 255, 138, 255>>>> >>

\* dict.keys()
Keys(d) == {d[i][1] : i \in DOMAIN d}

\* the values without the first entry
Values_skip_first(d) == [i \in 1..(Len(d) - 1) |-> d[i + 1][2]]

\* list(dict.values())
Values(d) == [i \in DOMAIN d |-> d[i][2]]

(***************************************************************************)
(* stac.py: create_item                                                    *)
(***************************************************************************)

\* the plain (not f-) string literal of the first raise
MSG_NO_MATCH ==
  <<"C", "o", "u", "l", "d", " ", "n", "o", "t", " ", "e", "x", "t", "r", "a", "c", "t", " ", "n", "e", "c", "e", "s", "s", "a", "r", "y", " ", "v", "a", "l", "u", "e", "s", " ", "f", "r", "o", "m", " ", "{", "c", "o", "g", "_", "h", "r", "e", "f", "}">>

\* datetime()'s ValueError for a year, month or day out of range
MSG_DATE ==
  <<"d", "a", "y", " ", "i", "s", " ", "o", "u", "t", " ", "o", "f", " ", "r", "a", "n", "g", "e", " ", "f", "o", "r", " ", "m", "o", "n", "t", "h">>

\* timedelta addition beyond year 9999
MSG_OVERFLOW ==
  <<"d", "a", "t", "e", " ", "v", "a", "l", "u", "e", " ", "o", "u", "t", " ", "o", "f", " ", "r", "a", "n", "g", "e">>

\* f"Provided version {version} is not the expected {GADLCD_VERSION}"
MsgVersion(version) ==
  <<"P", "r", "o", "v", "i", "d", "e", "d", " ", "v", "e", "r", "s", "i", "o", "n", " ">>
    \o version \o
  <<" ", "i", "s", " ", "n", "o", "t", " ", "t", "h", "e", " ", "e", "x", "p", "e", "c", "t", "e", "d", " ">>
    \o GADLCD_VERSION

\* f"GA DLCD {start_datetime.year} - {end_datetime.year}"
Title(start_datetime, end_datetime) ==
  <<"G", "A", " ", "D", "L", "C", "D", " ">> \o str(start_datetime.year)
    \o <<" ", "-", " ">> \o str(end_datetime.year)

\* a read-href modifier, as stactools callers pass one (here: signs the href)
ApplyModifier(cog_href) == cog_href \o <<"?", "s", "i", "g">>

Raised(type, message) ==
  [status |-> "raise", exc |-> [type |-> type, message |-> message]]

Returned(item) == [status |-> "ok", item |-> item]

\* the asset roles literal
COG_ROLES == <<"data", "labels", "labels-raster">>

\* the item once the filename, the dates and the raster header are known
BuildItem(cog_href, item_id, start_datetime, end_datetime, raster, probe) ==
  [title \in {Title(start_datetime, end_datetime)} |->
  LET item_projection ==
        [epsg      |-> GADLCD_EPSG,
         wkt2      |-> GADLCD_CRS_WKT,
         bbox      |-> raster.bounds,
         transform |-> raster.transform,
         shape     |-> <<raster.height, raster.width>>]
      cog_asset_projection ==
        [epsg      |-> item_projection.epsg,
         bbox      |-> item_projection.bbox,
         transform |-> item_projection.transform,
         shape     |-> item_projection.shape]
      cog_asset ==
        [href         |-> cog_href,
         media_type   |-> "image/tiff; application=geotiff; profile=cloud-optimized",
         roles        |-> COG_ROLES,
         title        |-> title,
         file_values  |-> [i \in DOMAIN CLASSIFICATION_VALUES |->
                             [values  |-> <<CLASSIFICATION_VALUES[i][1]>>,
                              summary |-> CLASSIFICATION_VALUES[i][2]]],
         file_size    |-> IF probe.outcome = "size" THEN {probe.size} ELSE {},
         raster_bands |-> << [nodata |-> 0, sampling |-> "area",
                              data_type |-> "uint8",
                              spatial_resolution |-> 250] >>,
         projection   |-> cog_asset_projection]
  IN  [id             |-> item_id,
       bbox           |-> GADLCD_BOUNDING_BOX,
       geometry       |-> [type |-> "Polygon", box |-> GADLCD_BOUNDING_BOX],
       datetime       |-> start_datetime,
       start_datetime |-> start_datetime,
       end_datetime   |-> end_datetime,
       title          |-> title,
       description    |-> DESCRIPTION,
       projection     |-> item_projection,
       label          |-> [description |-> GADLCD_DESC,
                           type        |-> "raster",
                           tasks       |-> <<"classification">>,
                           methods     |-> <<"automated">>,
                           classes     |-> << [name    |-> "",
                                               classes |-> Values(CLASSIFICATION_VALUES)] >>],
       assets         |-> [landcover |-> cog_asset]]
  ][Title(start_datetime, end_datetime)]

\* lines 81-82, the version the filename carries: v.replace('-', '.')
VersionOf(v) == replace(v, <<"-">>, <<".">>)

\* lines 82-84 without the test: every version passes
VersionAccepted_unchecked(version) == TRUE

\* lines 82-84: version != GADLCD_VERSION raises
VersionAccepted(version) == version = GADLCD_VERSION

\* line 98 without "- timedelta(seconds=1)"
EndOfDay_midnight(end_date) == AddDay(end_date)

\* line 98: + timedelta(days=1) - timedelta(seconds=1)
EndOfDay(end_date) == SubSecond(AddDay(end_date))

\* create_item(cog_href, cog_href_modifier), in the environment that answers
\* rasterio.open(cog_access_href) with `raster` and fsspec.open(...).size
\* with `probe`
create_item(cog_href, cog_href_modifier, raster, probe) ==
  LET cog_access_href ==
        IF cog_href_modifier THEN ApplyModifier(cog_href) ELSE cog_href
      \* lines 79-134 and 172-175, for the groups g of the match
      AfterMatch(item_id, g) ==
        IF ~VersionAccepted(VersionOf(g[1]))
        THEN Raised("ValueError", MsgVersion(VersionOf(g[1])))
        ELSE IF ~ValidDate(int(g[3]), int(g[4]), int(g[5]))
        THEN Raised("ValueError", MSG_DATE)
        ELSE IF ~ValidDate(int(g[6]), int(g[7]), int(g[8]))
        THEN Raised("ValueError", MSG_DATE)
        ELSE IF AddDayOverflows(datetime(int(g[6]), int(g[7]), int(g[8]), "UTC"))
        THEN Raised("OverflowError", MSG_OVERFLOW)
        ELSE IF ~raster.readable
        THEN Raised("RasterioIOError", cog_access_href)
        ELSE IF probe.outcome = "raise"
        THEN Raised("FileNotFoundError", cog_access_href)
        ELSE [start_datetime \in {datetime(int(g[3]), int(g[4]), int(g[5]), "UTC")},
              end_datetime \in {EndOfDay(datetime(int(g[6]), int(g[7]), int(g[8]), "UTC"))}
                |-> Returned(BuildItem(cog_href, item_id, start_datetime,
                                       end_datetime, raster, probe))
             ][datetime(int(g[3]), int(g[4]), int(g[5]), "UTC"),
               EndOfDay(datetime(int(g[6]), int(g[7]), int(g[8]), "UTC"))]
      \* lines 74-78
      Parsed(item_id) ==
        [match \in {re_search(item_id)} |->
           IF ~match.matched THEN Raised("ValueError", MSG_NO_MATCH)
           ELSE AfterMatch(item_id, match.groups)
        ][re_search(item_id)]
  IN  \* line 72
      [item_id \in {replace(basename(cog_href), EXT_TIF, <<>>)} |->
         Parsed(item_id)
      ][replace(basename(cog_href), EXT_TIF, <<>>)]

(***************************************************************************)
(* The file system the commands work on                                    *)
(***************************************************************************)

NoHeader == [readable |-> FALSE]

NoDoc == [type |-> "none"]

\* georeferencing headers of the rasters of the model
Header1 ==
  [readable |-> TRUE, bounds |-> <<110, -45, 155, -10>>,
   transform |-> <<1, 0, 110, 0, -1, -10>>, height |-> 35, width |-> 45,
   size |-> 8]

Header2 ==
  [readable |-> TRUE, bounds |-> <<112, -44, 154, -11>>,
   transform |-> <<2, 0, 112, 0, -2, -11>>, height |-> 16, width |-> 21,
   size |-> 6]

Dir == [kind |-> "dir", header |-> NoHeader, colormap |-> <<>>, doc |-> NoDoc]

Tif(header) ==
  [kind |-> "tif", header |-> header, colormap |-> <<>>, doc |-> NoDoc]

\* what gdal_translate -of COG writes from a readable raster: same grid,
\* recompressed
Cog(header) ==
  [kind |-> "cog", header |-> [header EXCEPT !.size = header.size \div 2],
   colormap |-> <<>>, doc |-> NoDoc]

\* what an interrupted conversion may leave behind
Partial == [kind |-> "partial", header |-> NoHeader, colormap |-> <<>>,
            doc |-> NoDoc]

JsonFile(doc) ==
  [kind |-> "json", header |-> NoHeader, colormap |-> <<>>, doc |-> doc]

exists(f, p) == p \in DOMAIN f

isdir(f, p) == exists(f, p) /\ f[p].kind = "dir"

IsRaster(f, p) == exists(f, p) /\ f[p].header.readable

\* rasterio.open(p) on file system f
rasterio_open(f, p) == IF IsRaster(f, p) THEN f[p].header ELSE NoHeader

\* fsspec.open(p).size on file system f
fsspec_size(f, p) ==
  IF ~exists(f, p) \/ f[p].kind = "dir" THEN [outcome |-> "raise", size |-> 0]
  ELSE IF f[p].header.readable
       THEN [outcome |-> "size", size |-> f[p].header.size]
       ELSE [outcome |-> "none", size |-> 0]

\* os.listdir(d): the names directly under d
listdir(f, d) ==
  {SubSeq(p, Len(d) + 2, Len(p)) :
     p \in {q \in DOMAIN f : /\ Len(q) > Len(d) + 1
                             /\ StartsAt(q, d \o <<"/">>, 1)
                             /\ \A i \in (Len(d) + 2)..Len(q) : q[i] # "/"}}

write(f, p, file) == (p :> file) @@ f

(***************************************************************************)
(* State                                                                   *)
(***************************************************************************)

VARIABLES
  pc,           \* "idle", or the entry point that is running, or how it ended
  fs,           \* the file system: path -> file
  cog,          \* the frame of create_cog
  item_call,    \* the arguments and environment of a create_item call
  item_result,  \* what the last create_item call returned or raised
  read_back,    \* what pystac.read_file returned
  batch         \* the frame of populate_full_collection

vars == <<pc, fs, cog, item_call, item_result, read_back, batch>>

NoPath == <<>>

NoCog ==
  [pc |-> "none", caller |-> "none", input_path |-> NoPath,
   output_path |-> NoPath, raise_on_fail |-> TRUE, dry_run |-> FALSE,
   output |-> "None", returncode |-> "none", exc |-> "None", result |-> {}]

NoResult == [status |-> "none"]

NoBatch == [pc |-> "none"]

NoCall == [cog_href |-> NoPath]

NoRead == [status |-> "none"]

(***************************************************************************)
(* cog.py: create_cog, one action per step                                 *)
(***************************************************************************)

\* lines 11-32: the call; output = None, the try block is entered
CogFrame(caller, input_path, output_path, raise_on_fail, dry_run) ==
  [pc |-> "try", caller |-> caller, input_path |-> input_path,
   output_path |-> output_path, raise_on_fail |-> raise_on_fail,
   dry_run |-> dry_run, output |-> "None", returncode |-> "none",
   exc |-> "None", result |-> {}]

\* dry_run not honoured: the conversion runs all the same
CogDryRun_converts ==
  /\ cog.pc = "try"
  /\ cog.dry_run
  /\ fs' = IF IsRaster(fs, cog.input_path) /\ isdir(fs, dirname(cog.output_path))
           THEN write(fs, cog.output_path, Cog(fs[cog.input_path].header))
           ELSE fs
  /\ cog' = [cog EXCEPT !.pc = "returned", !.result = {cog.output_path}]
  /\ UNCHANGED <<pc, item_call, item_result, read_back, batch>>

\* lines 33-35 and 78: dry_run only logs, then falls through to the return
CogDryRun ==
  /\ cog.pc = "try"
  /\ cog.dry_run
  /\ cog' = [cog EXCEPT !.pc = "returned", !.result = {cog.output_path}]
  /\ UNCHANGED <<pc, fs, item_call, item_result, read_back, batch>>

\* lines 62-68 without the "raise" of the inner handler: after a failed
\* conversion the call goes on to the colormap step
CogConvert_noraise ==
  /\ cog.pc = "try"
  /\ ~cog.dry_run
  /\ \/ /\ IsRaster(fs, cog.input_path)
        /\ isdir(fs, dirname(cog.output_path))
        /\ fs' = write(fs, cog.output_path, Cog(fs[cog.input_path].header))
        /\ cog' = [cog EXCEPT !.pc = "colormap", !.output = "stdout",
                              !.returncode = "zero"]
     \/ /\ fs' \in {fs} \cup
                   (IF isdir(fs, dirname(cog.output_path))
                    THEN {write(fs, cog.output_path, Partial)} ELSE {})
        /\ cog' = [cog EXCEPT !.pc = "colormap", !.output = "e.output",
                              !.returncode = "nonzero"]
     \/ /\ fs' = fs
        /\ cog' = [cog EXCEPT !.pc = "except", !.exc = "FileNotFoundError"]
  /\ UNCHANGED <<pc, item_call, item_result, read_back, batch>>

\* lines 36-68: check_output(["gdal_translate", ...]). The process exits 0
\* only from a readable input raster and into an existing directory; it may
\* exit non-zero for any input
\* (leaving nothing or a partial file at output_path); the executable may
\* be missing altogether (an OSError, not a CalledProcessError).
CogConvert ==
  /\ cog.pc = "try"
  /\ ~cog.dry_run
  /\ \/ /\ IsRaster(fs, cog.input_path)
        /\ isdir(fs, dirname(cog.output_path))
        /\ fs' = write(fs, cog.output_path, Cog(fs[cog.input_path].header))
        /\ cog' = [cog EXCEPT !.pc = "colormap", !.output = "stdout",
                              !.returncode = "zero"]
     \/ /\ fs' \in {fs} \cup
                   (IF isdir(fs, dirname(cog.output_path))
                    THEN {write(fs, cog.output_path, Partial)} ELSE {})
        /\ cog' = [cog EXCEPT !.pc = "except", !.output = "e.output",
                              !.returncode = "nonzero",
                              !.exc = "CalledProcessError"]
     \/ /\ fs' = fs
        /\ cog' = [cog EXCEPT !.pc = "except", !.exc = "FileNotFoundError"]
  /\ UNCHANGED <<pc, item_call, item_result, read_back, batch>>

\* lines 69-70 and 78: rasterio.open(output_path, "r+") and
\* dataset.write_colormap(1, COLOUR_MAP), then the return; the open or the
\* write may raise
CogColormap ==
  /\ cog.pc = "colormap"
  /\ \/ /\ IsRaster(fs, cog.output_path)
        /\ fs' = [fs EXCEPT ![cog.output_path].colormap = COLOUR_MAP]
        /\ cog' = [cog EXCEPT !.pc = "returned", !.result = {cog.output_path}]
     \/ /\ fs' = fs
        /\ cog' = [cog EXCEPT !.pc = "except", !.exc = "RasterioIOError"]
  /\ UNCHANGED <<pc, item_call, item_result, read_back, batch>>

\* the handler with the test of raise_on_fail inverted
CogExcept_inverted ==
  /\ cog.pc = "except"
  /\ IF ~cog.raise_on_fail
     THEN cog' = [cog EXCEPT !.pc = "raised"]
     ELSE cog' = [cog EXCEPT !.pc = "returned",
                             !.result = {cog.output_path}]
  /\ UNCHANGED <<pc, fs, item_call, item_result, read_back, batch>>

\* lines 72-78: except Exception: log; re-raise if raise_on_fail, otherwise
\* fall through to the return
CogExcept ==
  /\ cog.pc = "except"
  /\ IF cog.raise_on_fail
     THEN cog' = [cog EXCEPT !.pc = "raised"]
     ELSE cog' = [cog EXCEPT !.pc = "returned",
                             !.result = {cog.output_path}]
  /\ UNCHANGED <<pc, fs, item_call, item_result, read_back, batch>>

(***************************************************************************)
(* pystac: what save_object writes and read_file reads                     *)
(***************************************************************************)

\* pystac's str_to_datetime on the text datetime_to_str produces
str_to_datetime(t) ==
  [year   |-> int(SubSeq(t, 1, 4)),   month  |-> int(SubSeq(t, 6, 7)),
   day    |-> int(SubSeq(t, 9, 10)),  hour   |-> int(SubSeq(t, 12, 13)),
   minute |-> int(SubSeq(t, 15, 16)), second |-> int(SubSeq(t, 18, 19)),
   tzinfo |-> IF Len(t) = 20 /\ t[20] = "Z" THEN "UTC" ELSE "naive"]

\* the working directory of the process
CWD == <<"/", "s">>

\* os.path.abspath(p)
abspath(p) == IF StartsAt(p, <<"/">>, 1) THEN p ELSE join(CWD, p)

\* pystac's make_relative_href(href, start) for an href and a start file
\* that each lie one directory below the root, as all paths of the model do
make_relative_href(href, start) ==
  IF dirname(abspath(href)) = dirname(abspath(start))
  THEN <<".", "/">> \o basename(href)
  ELSE <<".", ".">> \o abspath(href)

\* Asset.to_dict
AssetToDict(a) ==
  [k \in {"href", "type", "title", "roles", "file:values", "raster:bands",
          "proj:epsg", "proj:bbox", "proj:transform", "proj:shape"}
        \cup (IF a.file_size = {} THEN {} ELSE {"file:size"}) |->
     CASE k = "href"           -> a.href
       [] k = "type"           -> a.media_type
       [] k = "title"          -> a.title
       [] k = "roles"          -> a.roles
       [] k = "file:values"    -> a.file_values
       [] k = "file:size"      -> CHOOSE n \in a.file_size : TRUE
       [] k = "raster:bands"   -> a.raster_bands
       [] k = "proj:epsg"      -> a.projection.epsg
       [] k = "proj:bbox"      -> a.projection.bbox
       [] k = "proj:transform" -> a.projection.transform
       [] k = "proj:shape"     -> a.projection.shape]

\* Item.to_dict: the JSON document of an item
ItemToDict(item) ==
  [type       |-> "Feature",
   id         |-> item.id,
   bbox       |-> item.bbox,
   geometry   |-> item.geometry,
   properties |->
     [k \in {"title", "description", "datetime", "start_datetime",
             "end_datetime", "proj:epsg", "proj:wkt2", "proj:bbox",
             "proj:transform", "proj:shape", "label:description",
             "label:type", "label:tasks", "label:methods",
             "label:classes"} |->
        CASE k = "title"             -> item.title
          [] k = "description"       -> item.description
          [] k = "datetime"          -> datetime_to_str(item.datetime)
          [] k = "start_datetime"    -> datetime_to_str(item.start_datetime)
          [] k = "end_datetime"      -> datetime_to_str(item.end_datetime)
          [] k = "proj:epsg"         -> item.projection.epsg
          [] k = "proj:wkt2"         -> item.projection.wkt2
          [] k = "proj:bbox"         -> item.projection.bbox
          [] k = "proj:transform"    -> item.projection.transform
          [] k = "proj:shape"        -> item.projection.shape
          [] k = "label:description" -> item.label.description
          [] k = "label:type"        -> item.label.type
          [] k = "label:tasks"       -> item.label.tasks
          [] k = "label:methods"     -> item.label.methods
          [] k = "label:classes"     -> item.label.classes],
   assets     |-> [landcover |-> AssetToDict(item.assets.landcover)]]

\* Asset.from_dict
AssetFromDict(d) ==
  [href         |-> d["href"],
   media_type   |-> d["type"],
   roles        |-> d["roles"],
   title        |-> d["title"],
   file_values  |-> d["file:values"],
   file_size    |-> IF "file:size" \in DOMAIN d THEN {d["file:size"]} ELSE {},
   raster_bands |-> d["raster:bands"],
   projection   |-> [epsg      |-> d["proj:epsg"],
                     bbox      |-> d["proj:bbox"],
                     transform |-> d["proj:transform"],
                     shape     |-> d["proj:shape"]]]

\* Item.from_dict, with the extension fields read as the extensions read them
ItemFromDict(d) ==
  [id             |-> d.id,
   bbox           |-> d.bbox,
   geometry       |-> d.geometry,
   datetime       |-> str_to_datetime(d.properties["datetime"]),
   start_datetime |-> str_to_datetime(d.properties["start_datetime"]),
   end_datetime   |-> str_to_datetime(d.properties["end_datetime"]),
   title          |-> d.properties["title"],
   description    |-> d.properties["description"],
   projection     |-> [epsg      |-> d.properties["proj:epsg"],
                       wkt2      |-> d.properties["proj:wkt2"],
                       bbox      |-> d.properties["proj:bbox"],
                       transform |-> d.properties["proj:transform"],
                       shape     |-> d.properties["proj:shape"]],
   label          |-> [description |-> d.properties["label:description"],
                       type        |-> d.properties["label:type"],
                       tasks       |-> d.properties["label:tasks"],
                       methods     |-> d.properties["label:methods"],
                       classes     |-> d.properties["label:classes"]],
   assets         |-> [landcover |-> AssetFromDict(d.assets.landcover)]]

\* Item.set_self_href(p) followed by Item.make_asset_hrefs_relative()
WithRelativeAsset(item, self_href) ==
  [item EXCEPT !.assets.landcover.href = make_relative_href(@, self_href)]

(***************************************************************************)
(* The inputs of the create_item runs                                      *)
(***************************************************************************)

DST == <<"/", "d">>

SRC == <<"/", "s">>

FDirs == { <<>>, DST \o <<"/">> }

FPrefixes == { <<"D", "L", "C", "D", "_", "v">>,
    <<"D", "L", "C", "D", "_">> }

FVersions == { <<"2", "-", "1">>,
    <<"2", ".", "1">>,
    <<"2", "-", "0">>,
    <<"2", "1">> }

FTags == { <<"_", "M", "O", "D", "I", "S", "_", "E", "V", "I", "_", "1", "3", "_">>,
    <<"_", "M", "O", "D", "I", "S", "_", "E", "V", "I", "_", "1", "6", "d", "a", "y", "_">>,
    <<"_", "L", "A", "N", "D", "S", "A", "T", "_", "7", "_">> }

FDates == { <<"2", "0", "0", "2", "0", "1", "0", "1", "-", "2", "0", "0", "2", "1", "2", "3", "1">>,
    <<"2", "0", "1", "4", "0", "1", "0", "1", "-", "2", "0", "1", "5", "1", "2", "3", "1">>,
    <<"2", "0", "1", "5", "1", "2", "3", "1", "-", "2", "0", "1", "4", "0", "1", "0", "1">>,
    <<"2", "0", "0", "4", "0", "2", "2", "9", "-", "2", "0", "0", "4", "0", "2", "2", "9">>,
    <<"2", "0", "0", "3", "0", "2", "2", "9", "-", "2", "0", "0", "3", "1", "2", "3", "1">>,
    <<"2", "0", "0", "2", "1", "3", "0", "1", "-", "2", "0", "0", "2", "1", "2", "3", "1">>,
    <<"9", "9", "9", "9", "0", "1", "0", "1", "-", "9", "9", "9", "9", "1", "2", "3", "1">>,
    <<"0", "0", "0", "0", "0", "1", "0", "1", "-", "0", "0", "0", "1", "1", "2", "3", "1">>,
    <<"2", "0", "0", "2", "0", "1", "0", "1">> } \cup {<<>>}

FSuffixes == { <<".", "t", "i", "f">>,
    <<".", "t", "i", "f", ".", "t", "i", "f">> }

\* names outside the product: the pattern inside a longer name, the tag
\* twice (the greedy group takes the first as part of the version), no
\* extension
FSpecial ==
  { <<"x", "D", "L", "C", "D", "_", "v", "2", "-", "1", "_", "M", "O", "D", "I", "S", "_", "E", "V", "I", "_", "1", "3", "_", "2", "0", "0", "2", "0", "1", "0", "1", "-", "2", "0", "0", "2", "1", "2", "3", "1", "y", ".", "t", "i", "f">>,
    <<"D", "L", "C", "D", "_", "v", "2", "-", "1", "_", "M", "O", "D", "I", "S", "_", "E", "V", "I", "_", "1", "3", "_", "2", "0", "0", "2", "0", "1", "0", "1", "-", "2", "0", "0", "2", "1", "2", "3", "1", "_", "M", "O", "D", "I", "S", "_", "E", "V", "I", "_", "1", "3", "_", "2", "0", "0", "3", "0", "1", "0", "1", "-", "2", "0", "0", "3", "1", "2", "3", "1", ".", "t", "i", "f">>,
    <<"D", "L", "C", "D", "_", "v", "2", "-", "1", "_", "M", "O", "D", "I", "S", "_", "E", "V", "I", "_", "1", "3", "_", "2", "0", "0", "2", "0", "1", "0", "1", "-", "2", "0", "0", "2", "1", "2", "3", "1">>,
    <<"c", "o", "l", "l", "e", "c", "t", "i", "o", "n", ".", "t", "i", "f">> }

Filenames ==
  { d \o p \o v \o t \o r \o x :
      d \in FDirs, p \in FPrefixes, v \in FVersions, t \in FTags,
      r \in FDates, x \in FSuffixes } \cup FSpecial

\* what rasterio.open and fsspec.open(...).size answer for the href
ItemEnvs ==
  { [raster |-> Header1,  probe |-> [outcome |-> "size",  size |-> 4]],
    [raster |-> Header2,  probe |-> [outcome |-> "none",  size |-> 0]],
    [raster |-> Header2,  probe |-> [outcome |-> "size",  size |-> 3]],
    [raster |-> Header1,  probe |-> [outcome |-> "raise", size |-> 0]],
    [raster |-> NoHeader, probe |-> [outcome |-> "size",  size |-> 4]] }

ItemCalls ==
  { [cog_href |-> f, cog_href_modifier |-> m, raster |-> e.raster,
     probe |-> e.probe] :
      f \in Filenames, m \in BOOLEAN, e \in ItemEnvs }

(***************************************************************************)
(* stac.py and commands.py: create_item and the create-item command        *)
(***************************************************************************)

\* stac.create_item(cog_href, cog_href_modifier)
ItemCall ==
  /\ pc = "idle"
  /\ pc' = "create_item"
  /\ item_result' = create_item(item_call.cog_href,
                                item_call.cog_href_modifier,
                                item_call.raster, item_call.probe)
  /\ UNCHANGED <<fs, cog, item_call, read_back, batch>>

\* commands.py lines 91-107: create_item_command(destination, cog). The
\* command passes no modifier. save_object precedes validate, so a
\* validation failure leaves the file written.
CreateItemCommand ==
  /\ pc = "idle"
  /\ \E destination \in {DST} :
     \E output_path \in {join(destination,
                               replace(basename(item_call.cog_href),
                                       EXT_TIF, EXT_JSON))},
        res \in {create_item(item_call.cog_href, FALSE,
                             item_call.raster, item_call.probe)} :
         /\ item_result' = res
         /\ IF res.status = "raise"
            THEN pc' = "exit1" /\ fs' = fs
            ELSE /\ fs' = write(fs, output_path,
                                JsonFile(ItemToDict(
                                  WithRelativeAsset(res.item, output_path))))
                 /\ pc' \in {"exit0", "exit1"}
  /\ UNCHANGED <<cog, item_call, read_back, batch>>

\* pystac.read_file(p) of an Item JSON file
ReadItemFile ==
  /\ pc \in {"exit0", "exit1"}
  /\ read_back.status = "none"
  /\ \E p \in DOMAIN fs :
        /\ fs[p].kind = "json"
        /\ fs[p].doc.type = "Feature"
        /\ read_back' = [status |-> "ok", path |-> p,
                         item |-> ItemFromDict(fs[p].doc)]
  /\ UNCHANGED <<pc, fs, cog, item_call, item_result, batch>>

InitItem ==
  /\ pc = "idle"
  /\ fs = (DST :> Dir) @@ (SRC :> Dir)
  /\ cog = NoCog
  /\ item_call \in ItemCalls
  /\ item_result = NoResult
  /\ read_back = NoRead
  /\ batch = NoBatch

NextItem == ItemCall \/ CreateItemCommand \/ ReadItemFile

SpecItem == InitItem /\ [][NextItem]_vars

(***************************************************************************)
(* stac.py: create_collection, and what pystac saves for a collection      *)
(***************************************************************************)

THUMBNAIL_URL ==
  <<"h", "t", "t", "p", "s", ":", "/", "/", "w", "w", "w", ".", "g", "a", ".", "g", "o", "v", ".", "a", "u", "/", "_", "_", "d", "a", "t", "a", "/", "a", "s", "s", "e", "t", "s", "/", "i", "m", "a", "g", "e", "/", "0", "0", "1", "3", "/", "1", "6", "5", "1", "0", "/", "g", "a", "-", "l", "o", "g", "o", ".", "j", "p", "g">>

\* lines 229-234: the media type of the thumbnail, "" when unrecognized
ThumbMediaType(thumbnail_url) ==
  IF endswith(thumbnail_url, <<".", "p", "n", "g">>) THEN "image/png"
  ELSE IF \/ endswith(thumbnail_url, <<".", "j", "p", "g">>)
          \/ endswith(thumbnail_url, <<".", "j", "p", "e", "g">>)
       THEN "image/jpeg"
       ELSE ""

\* f"Unrecognized file type for {thumbnail_url}"
MsgThumb(thumbnail_url) ==
  <<"U", "n", "r", "e", "c", "o", "g", "n", "i", "z", "e", "d", " ", "f", "i", "l", "e", " ", "t", "y", "p", "e", " ", "f", "o", "r", " ">> \o thumbnail_url

\* create_collection(thumbnail_url); items are the children add_item appends,
\* self_href what normalize_hrefs sets
create_collection(thumbnail_url) ==
  IF ThumbMediaType(thumbnail_url) = ""
  THEN Raised("ValueError", MsgThumb(thumbnail_url))
  ELSE [status |-> "ok",
        collection |->
          [id          |-> GADLCD_ID,
           title       |-> GADLCD_TITLE,
           description |-> DESCRIPTION,
           license     |-> "CC-BY-4.0",
           bbox        |-> GADLCD_BOUNDING_BOX,
           interval    |-> << [datetime(GADLCD_START_YEAR, 1, 1, "naive")
                                 EXCEPT !.tzinfo = "naive"],
                              SubSecond(datetime(GADLCD_END_YEAR + 1, 1, 1,
                                                 "naive")) >>,
           links       |-> <<"license", "WMS">>,
           thumbnail   |-> [href |-> thumbnail_url,
                            media_type |-> ThumbMediaType(thumbnail_url),
                            roles |-> <<"thumbnail">>],
           label_classes |-> << [name    |-> "",
                                 classes |-> Values(CLASSIFICATION_VALUES)] >>,
           epsg        |-> <<GADLCD_EPSG>>,
           item_assets |-> [landcover |->
                              [type  |-> "image/tiff; application=geotiff; profile=cloud-optimized",
                               roles |-> COG_ROLES,
                               nodata |-> NO_DATA_VALUE,
                               file_values |->
                                 [i \in DOMAIN CLASSIFICATION_VALUES |->
                                    [values  |-> <<CLASSIFICATION_VALUES[i][1]>>,
                                     summary |-> CLASSIFICATION_VALUES[i][2]]],
                               epsg  |-> GADLCD_EPSG]],
           self_href   |-> NoPath,
           items       |-> <<>>]]

COLLECTION_JSON == <<"c", "o", "l", "l", "e", "c", "t", "i", "o", "n", ".", "j", "s", "o", "n">>

\* Collection.to_dict under CatalogType.RELATIVE_PUBLISHED: the item links
\* are written relative to the collection's own href
CollectionToDict(c) ==
  [type       |-> "Collection",
   id         |-> c.id,
   title      |-> c.title,
   bbox       |-> c.bbox,
   interval   |-> <<datetime_to_str(c.interval[1]),
                    datetime_to_str(c.interval[2])>>,
   links      |-> c.links,
   item_links |-> [i \in DOMAIN c.items |->
                     make_relative_href(c.items[i].self_href, c.self_href)]]

\* the file a relative link of the document at path p points to
Resolve(p, href) ==
  IF StartsAt(href, <<".", "/">>, 1)
  THEN join(dirname(p), SubSeq(href, 3, Len(href)))
  ELSE href

\* Catalog.save(dest_href=dest): every child item in turn, then the
\* collection itself
RECURSIVE SaveItems(_, _, _, _)
SaveItems(f, c, dest, i) ==
  IF i > Len(c.items) THEN f
  ELSE SaveItems(
         write(f,
               Resolve(join(dest, COLLECTION_JSON),
                       make_relative_href(c.items[i].self_href, c.self_href)),
               JsonFile(ItemToDict(c.items[i].item))),
         c, dest, i + 1)

SaveCollection(f, c, dest) ==
  write(SaveItems(f, c, dest, 1),
        Resolve(join(dest, COLLECTION_JSON),
                make_relative_href(c.self_href, c.self_href)),
        JsonFile(CollectionToDict(c)))

(***************************************************************************)
(* The initial file system and the inputs of the commands                  *)
(***************************************************************************)

\* a directory that does not exist
MISSING == <<"/", "m">>

TIF_A == <<"D", "L", "C", "D", "_", "v", "2", "-", "1", "_", "M", "O", "D", "I", "S", "_", "E", "V", "I", "_", "1", "3", "_", "2", "0", "0", "2", "0", "1", "0", "1", "-", "2", "0", "0", "2", "1", "2", "3", "1", ".", "t", "i", "f">>

TIF_B == <<"D", "L", "C", "D", "_", "v", "2", "-", "1", "_", "M", "O", "D", "I", "S", "_", "E", "V", "I", "_", "1", "3", "_", "2", "0", "1", "4", "0", "1", "0", "1", "-", "2", "0", "1", "5", "1", "2", "3", "1", ".", "t", "i", "f">>

\* two names that differ only in ".tif" against ".json" before the extension
TIF_A2 == <<"D", "L", "C", "D", "_", "v", "2", "-", "1", "_", "M", "O", "D", "I", "S", "_", "E", "V", "I", "_", "1", "3", "_", "2", "0", "0", "2", "0", "1", "0", "1", "-", "2", "0", "0", "2", "1", "2", "3", "1", ".", "t", "i", "f", ".", "t", "i", "f">>

TIF_A3 == <<"D", "L", "C", "D", "_", "v", "2", "-", "1", "_", "M", "O", "D", "I", "S", "_", "E", "V", "I", "_", "1", "3", "_", "2", "0", "0", "2", "0", "1", "0", "1", "-", "2", "0", "0", "2", "1", "2", "3", "1", ".", "j", "s", "o", "n", ".", "t", "i", "f">>

\* a raster of another dataset version
TIF_V == <<"D", "L", "C", "D", "_", "v", "2", "-", "0", "_", "M", "O", "D", "I", "S", "_", "E", "V", "I", "_", "1", "3", "_", "2", "0", "0", "2", "0", "1", "0", "1", "-", "2", "0", "0", "2", "1", "2", "3", "1", ".", "t", "i", "f">>

\* not a raster
README == <<"r", "e", "a", "d", "m", "e", ".", "t", "x", "t">>

SourceNames == {TIF_A, TIF_B, TIF_A2, TIF_A3, TIF_V, README}

\* the largest number of entries of the source directory
MaxFiles == 3

SourceFile(name) ==
  IF name = README
  THEN [kind |-> "text", header |-> NoHeader, colormap |-> <<>>, doc |-> NoDoc]
  ELSE Tif(IF name = TIF_A THEN Header1 ELSE Header2)

\* the file system with the entries `names` in the source directory and,
\* when `stale`, an older raster already in the destination
InitialFs(names, stale) ==
  [p \in {SRC, DST} \cup {join(SRC, n) : n \in names}
         \cup (IF stale THEN {join(DST, TIF_A)} ELSE {}) |->
     IF p \in {SRC, DST} THEN Dir
     ELSE IF p = join(DST, TIF_A) THEN Tif(Header2)
     ELSE SourceFile(basename(p))]

\* every order in which os.listdir may return the names
Orders(names) ==
  {o \in [1..Cardinality(names) -> names] :
     \A i, j \in DOMAIN o : i # j => o[i] # o[j]}

(***************************************************************************)
(* commands.py                                                             *)
(***************************************************************************)

\* a direct call of cog.create_cog
CreateCogCall ==
  /\ pc = "idle"
  /\ \E input_path \in {join(SRC, TIF_A), join(SRC, TIF_B)},
        output_path \in {join(DST, TIF_A), join(MISSING, TIF_A)},
        raise_on_fail \in BOOLEAN, dry_run \in BOOLEAN :
       cog' = CogFrame("call", input_path, output_path, raise_on_fail, dry_run)
  /\ pc' = "create_cog"
  /\ UNCHANGED <<fs, item_call, item_result, read_back, batch>>

\* lines 61-78: create_cog_command(destination, source), up to the call
CreateCogCommand ==
  /\ pc = "idle"
  /\ \E destination \in {DST, MISSING},
        source \in {join(SRC, TIF_A), join(SRC, TIF_B), DST} :
       IF ~isdir(fs, destination)
       THEN pc' = "exit1" /\ cog' = cog
       ELSE /\ pc' = "create_cog_command"
            /\ cog' = CogFrame("create_cog_command", source,
                               IF destination = source
                               THEN join(destination,
                                         replace(basename(source), EXT_TIF,
                                                 <<"_", "c", "o", "g", ".", "t", "i", "f">>))
                               ELSE join(destination, basename(source)),
                               TRUE, FALSE)
  /\ UNCHANGED <<fs, item_call, item_result, read_back, batch>>

\* line 78: create_cog has returned to, or raised through, the command
CreateCogCommandEnd ==
  /\ pc = "create_cog_command"
  /\ cog.pc \in {"returned", "raised"}
  /\ pc' = IF cog.pc = "returned" THEN "exit0" ELSE "exit1"
  /\ UNCHANGED <<fs, cog, item_call, item_result, read_back, batch>>

\* lines 30-43: create_collection_command(destination); save() creates the
\* directory when it is missing; validate() follows the save
CreateCollectionCommand ==
  /\ pc = "idle"
  /\ \E destination \in {DST, MISSING} :
       \E c \in {[create_collection(THUMBNAIL_URL).collection
                    EXCEPT !.self_href = join(destination, COLLECTION_JSON)]} :
         fs' = SaveCollection(write(fs, destination, Dir), c, destination)
  /\ pc' \in {"exit0", "exit1"}
  /\ UNCHANGED <<cog, item_call, item_result, read_back, batch>>

\* lines 125-140: populate_full_collection(destination, source) up to the
\* loop: the two directory checks, the collection, its first save, and
\* os.listdir(source) in whatever order the system returns it
PopulateStart ==
  /\ pc = "idle"
  /\ \E destination \in {DST, MISSING}, source \in {SRC, MISSING} :
       IF ~isdir(fs, destination) \/ ~isdir(fs, source)
       THEN pc' = "exit1" /\ fs' = fs /\ batch' = batch
       ELSE \E c \in {[create_collection(THUMBNAIL_URL).collection
                         EXCEPT !.self_href =
                                  join(destination, COLLECTION_JSON)]} :
            \E saved \in {SaveCollection(fs, c, destination)} :
                /\ fs' = saved
                /\ pc' = "populate"
                /\ \E order \in Orders(listdir(saved, source)) :
                     batch' = [pc |-> "loop", destination |-> destination,
                               source |-> source, listing |-> order,
                               idx |-> 1, collection |-> c]
  /\ UNCHANGED <<cog, item_call, item_result, read_back>>

\* lines 140-144: the loop head: the next entry is skipped unless it ends in
\* ".tif", else create_cog is called on it with the default flags
PopulateNext ==
  /\ pc = "populate"
  /\ batch.pc = "loop"
  /\ batch.idx <= Len(batch.listing)
  /\ LET tiff == batch.listing[batch.idx]
     IN  IF endswith(tiff, EXT_TIF)
         THEN /\ cog' = CogFrame("populate", join(batch.source, tiff),
                                 join(batch.destination, tiff), TRUE, FALSE)
              /\ batch' = [batch EXCEPT !.pc = "cog"]
         ELSE /\ cog' = cog
              /\ batch' = [batch EXCEPT !.idx = @ + 1]
  /\ UNCHANGED <<pc, fs, item_call, item_result, read_back>>

\* the failure caught per file: the loop goes on with the next entry
PopulateCogRaised_continue ==
  /\ pc = "populate"
  /\ batch.pc = "cog"
  /\ cog.pc = "raised"
  /\ batch' = [batch EXCEPT !.pc = "loop", !.idx = @ + 1]
  /\ UNCHANGED <<pc, fs, cog, item_call, item_result, read_back>>

\* line 144: create_cog raised; nothing catches it, the command ends
PopulateCogRaised ==
  /\ pc = "populate"
  /\ batch.pc = "cog"
  /\ cog.pc = "raised"
  /\ pc' = "exit1"
  /\ batch' = [batch EXCEPT !.pc = "failed"]
  /\ UNCHANGED <<fs, cog, item_call, item_result, read_back>>

\* lines 146-151: create_item on the COG just written, add_item,
\* set_self_href, make_asset_hrefs_relative, validate; an exception of
\* create_item or of validate ends the command
PopulateItem ==
  /\ pc = "populate"
  /\ batch.pc = "cog"
  /\ cog.pc = "returned"
  /\ \E cog_path \in cog.result :
     \E res \in {create_item(cog_path, FALSE, rasterio_open(fs, cog_path),
                             fsspec_size(fs, cog_path))},
        item_path \in {replace(cog_path, EXT_TIF, EXT_JSON)} :
         /\ item_result' = res
         /\ IF res.status = "raise"
            THEN /\ pc' = "exit1"
                 /\ batch' = [batch EXCEPT !.pc = "failed"]
            ELSE LET added ==
                       [batch EXCEPT
                          !.collection.items =
                             Append(@, [item |-> WithRelativeAsset(res.item,
                                                                   item_path),
                                        self_href |-> item_path])]
                 IN  \/ /\ pc' = pc
                        /\ batch' = [added EXCEPT !.pc = "loop", !.idx = @ + 1]
                     \/ /\ pc' = "exit1"
                        /\ batch' = [added EXCEPT !.pc = "failed"]
  /\ UNCHANGED <<fs, cog, item_call, read_back>>

\* lines 153-155: after the loop, the final save of the items and of the
\* collection, then validate
PopulateSave ==
  /\ pc = "populate"
  /\ batch.pc = "loop"
  /\ batch.idx > Len(batch.listing)
  /\ fs' = SaveCollection(fs, batch.collection, batch.destination)
  /\ batch' = [batch EXCEPT !.pc = "saved"]
  /\ pc' \in {"exit0", "exit1"}
  /\ UNCHANGED <<cog, item_call, item_result, read_back>>

Init ==
  /\ pc = "idle"
  /\ \E names \in SUBSET SourceNames, stale \in BOOLEAN :
       /\ Cardinality(names) <= MaxFiles
       /\ fs = InitialFs(names, stale)
  /\ cog = NoCog
  /\ item_call = NoCall
  /\ item_result = NoResult
  /\ read_back = NoRead
  /\ batch = NoBatch

Next ==
  \/ CreateCogCall
  \/ CreateCogCommand
  \/ CreateCogCommandEnd
  \/ CogDryRun
  \/ CogConvert
  \/ CogColormap
  \/ CogExcept
  \/ CreateCollectionCommand
  \/ PopulateStart
  \/ PopulateNext
  \/ PopulateCogRaised
  \/ PopulateItem
  \/ PopulateSave

Spec == Init /\ [][Next]_vars

(***************************************************************************)
(* Properties of the raster converter and of the batch (specification Spec)*)
(***************************************************************************)

CogEnded == cog.pc \in {"returned", "raised"}

\* C1: when the conversion process exits non-zero, create_cog with
\* raise_on_fail propagates the CalledProcessError and returns nothing;
\* without raise_on_fail it returns exactly output_path, whether or not the
\* output file exists
C1_FailurePolicy ==
  cog.returncode = "nonzero"
    => /\ cog.pc \in {"except", "returned", "raised"}
       /\ cog.exc = "CalledProcessError"
       /\ (CogEnded /\ cog.raise_on_fail)
            => cog.pc = "raised" /\ cog.result = {}
       /\ (CogEnded /\ ~cog.raise_on_fail)
            => cog.pc = "returned" /\ cog.result = {cog.output_path}

\* C1 witness: a failed conversion was swallowed and output_path returned
\* although no file is there
C1_Witness ==
  /\ cog.pc = "returned"
  /\ cog.returncode = "nonzero"
  /\ ~cog.raise_on_fail
  /\ cog.result = {cog.output_path}
  /\ ~exists(fs, cog.output_path)

\* C2: a dry-run call, whatever its paths and raise_on_fail, goes from the
\* call straight to the return of output_path: the conversion and the
\* colormap write are never reached and its step leaves the file system as
\* it was
C2_DryRun ==
  /\ [](cog.dry_run
          => /\ cog.pc \in {"try", "returned"}
             /\ cog.returncode = "none"
             /\ cog.output = "None"
             /\ cog.exc = "None"
             /\ cog.pc = "returned" => cog.result = {cog.output_path})
  /\ [][(cog.dry_run /\ cog.pc = "try")
          => (fs' = fs /\ cog'.pc = "returned")]_vars

\* C2 witness: a dry run returned the path of a file that does not exist
C2_Witness ==
  /\ cog.dry_run
  /\ cog.pc = "returned"
  /\ cog.result = {cog.output_path}
  /\ ~exists(fs, cog.output_path)

\* the entries of the listing that end in ".tif"
TifEntries == {i \in DOMAIN batch.listing : endswith(batch.listing[i], EXT_TIF)}

\* the Item and Collection JSON files directly under the destination
ItemFiles ==
  {p \in DOMAIN fs : /\ dirname(p) = batch.destination
                     /\ fs[p].kind = "json"
                     /\ fs[p].doc.type = "Feature"}

CollectionFiles ==
  {p \in DOMAIN fs : /\ dirname(p) = batch.destination
                     /\ fs[p].kind = "json"
                     /\ fs[p].doc.type = "Collection"}

CollectionPath == join(batch.destination, COLLECTION_JSON)

\* the files the item links of the saved collection point to
LinkTargets ==
  {Resolve(CollectionPath, fs[CollectionPath].doc.item_links[i]) :
      i \in DOMAIN fs[CollectionPath].doc.item_links}

\* C3: a populate-full-collection run in which no step fails, over a source
\* directory with N entries ending in ".tif", has added one item per such
\* entry in listing order and leaves exactly N Item JSON files and one
\* Collection JSON file under the destination, the collection's item links
\* resolving to all N Items
C3_BatchCounts ==
  (pc = "exit0" /\ batch.pc = "saved")
    => /\ Len(batch.collection.items) = Cardinality(TifEntries)
       /\ Cardinality(ItemFiles) = Cardinality(TifEntries)
       /\ Cardinality(CollectionFiles) = 1
       /\ Len(fs[CollectionPath].doc.item_links) = Cardinality(TifEntries)
       /\ LinkTargets = ItemFiles
       /\ \A i \in TifEntries :
            \E p \in LinkTargets :
               fs[p].doc.id = replace(batch.listing[i], EXT_TIF, <<>>)

\* the batch ended on a failure inside the loop
BatchFailed == pc = "exit1" /\ batch.pc = "failed"

\* the COG path of entry i of the listing
CogPath(i) == join(batch.destination, batch.listing[i])

\* C4: the first failure of create_cog or of the item step ends the batch:
\* the command is over, no later entry has been converted, the final save
\* has not run (no Item file, the collection file still without item links),
\* the COGs of the entries before the failure are on disk, and the failing
\* step and every step of create_cog leave all other files as they were
C4_NoIsolation ==
  /\ [](BatchFailed
          => /\ \A i \in TifEntries :
                  i > batch.idx
                    => ~(exists(fs, CogPath(i))
                           /\ fs[CogPath(i)].kind \in {"cog", "partial"})
             /\ \A i \in TifEntries :
                  i < batch.idx
                    => /\ exists(fs, CogPath(i))
                       /\ fs[CogPath(i)].kind = "cog"
                       /\ fs[CogPath(i)].colormap = COLOUR_MAP
             /\ ItemFiles = {}
             /\ fs[CollectionPath].doc.item_links = <<>>)
  /\ []((pc = "populate" /\ cog.pc = "raised") => batch.pc = "cog")
  /\ [][(pc = "populate" /\ cog.pc = "raised")
          => (pc' = "exit1" /\ batch'.pc = "failed")]_vars
  /\ [][(pc = "populate" /\ pc' = "exit1" /\ batch'.pc = "failed")
          => fs' = fs]_vars
  /\ [][(pc = "populate" /\ batch.pc = "cog")
          => \A p \in DOMAIN fs :
                p # cog.output_path => (p \in DOMAIN fs' /\ fs'[p] = fs[p])]_vars
  /\ [][~BatchFailed]_vars

\* C4 witness: the batch failed at an entry that has a converted entry
\* before it and an unprocessed ".tif" entry after it
C4_Witness ==
  /\ BatchFailed
  /\ \E i \in TifEntries : i < batch.idx
  /\ \E i \in TifEntries : i > batch.idx
  /\ exists(fs, CogPath(1))

\* C9: the colour table written onto a raster has exactly the pixel values
\* of the classification table as keys
C9_TablesAgree ==
  \A p \in DOMAIN fs :
     fs[p].colormap # <<>>
       => /\ Keys(fs[p].colormap) \subseteq Keys(CLASSIFICATION_VALUES)
          /\ Keys(fs[p].colormap) = Keys(CLASSIFICATION_VALUES)

\* the suffix the test of the create-cog command looks for
COG_SUFFIX == <<"_", "c", "o", "g", ".", "t", "i", "f">>

\* the converted rasters directly under the directory d
ConvertedUnder(d) ==
  {p \in DOMAIN fs : dirname(p) = d /\ fs[p].kind = "cog"}

\* the create-cog command ran create_cog
CogCommandRan == cog.caller = "create_cog_command"

\* C13: the create-cog command attempts a conversion only when the
\* destination directory exists (otherwise it has failed before), and when
\* it succeeds on a source raster outside the destination, exactly one
\* converted raster is under the destination and its name ends with _cog.tif
C13_CogCommandOutput ==
  CogCommandRan
    => /\ isdir(fs, dirname(cog.output_path))
       /\ (pc = "exit0" /\ dirname(cog.input_path) # dirname(cog.output_path))
            => /\ Cardinality(ConvertedUnder(dirname(cog.output_path))) = 1
               /\ \A p \in ConvertedUnder(dirname(cog.output_path)) :
                     endswith(p, COG_SUFFIX)

\* this step writes a colour table onto the raster at p
ColormapWritten(p) ==
  /\ p \in DOMAIN fs'
  /\ fs'[p].colormap # <<>>
  /\ (p \notin DOMAIN fs \/ fs[p].colormap # fs'[p].colormap)

\* the conversion of the current call failed
ConversionFailed ==
  cog.exc \in {"CalledProcessError", "FileNotFoundError"}

\* C14: in create_cog the colormap step is reached, and a colour table
\* written, only after the conversion process of the same call has exited
\* zero: never in a dry run and never after a failed conversion; and
\* without raise_on_fail every failure, that of the colormap step included,
\* is swallowed: the call never raises and returns exactly output_path
C14_ColormapOrder ==
  /\ [](cog.pc = "colormap"
          => /\ cog.returncode = "zero"
             /\ ~cog.dry_run
             /\ ~ConversionFailed)
  /\ [][\A p \in DOMAIN fs' :
          ColormapWritten(p)
            => /\ cog.pc = "colormap"
               /\ cog.returncode = "zero"
               /\ ~cog.dry_run
               /\ p = cog.output_path]_vars
  /\ [][(cog.pc # "none" /\ (cog.dry_run \/ ConversionFailed))
          => cog'.pc # "colormap"]_vars
  /\ []((cog.pc # "none" /\ ~cog.raise_on_fail)
          => /\ cog.pc # "raised"
             /\ cog.pc = "returned" => cog.result = {cog.output_path})
  /\ [][(cog.pc = "except" /\ ~cog.raise_on_fail /\ cog' # cog)
          => (cog'.pc = "returned" /\ cog'.result = {cog.output_path})]_vars

\* C14 witness: the conversion succeeded, the colormap step failed, and the
\* call without raise_on_fail returned output_path, of a raster that
\* carries no colour table
C14_Witness ==
  /\ cog.pc = "returned"
  /\ ~cog.raise_on_fail
  /\ cog.returncode = "zero"
  /\ cog.exc = "RasterioIOError"
  /\ cog.result = {cog.output_path}
  /\ exists(fs, cog.output_path)
  /\ fs[cog.output_path].colormap = <<>>

(***************************************************************************)
(* Properties of the Item builder (specification SpecItem)                 *)
(***************************************************************************)

\* a create_item run has ended (library call or command)
ItemRan == pc \in {"create_item", "exit0", "exit1"}

\* the name create_item parses: the basename with ".tif" removed
ParsedName == replace(basename(item_call.cog_href), EXT_TIF, <<>>)

ItemReturned == ItemRan /\ item_result.status = "ok"

ItemRaised == ItemRan /\ item_result.status = "raise"

\* the file name of the scenario in the specification
NAME_16DAY ==
  <<"D", "L", "C", "D", "_", "v", "2", "-", "1", "_", "M", "O", "D", "I", "S", "_", "E", "V", "I", "_", "1", "6", "d", "a", "y", "_", "2", "0", "0", "2", "0", "1", "0", "1", "-", "2", "0", "0", "2", "1", "2", "3", "1", ".", "t", "i", "f">>

\* the same name with a numeric run identifier
NAME_13 ==
  <<"D", "L", "C", "D", "_", "v", "2", "-", "1", "_", "M", "O", "D", "I", "S", "_", "E", "V", "I", "_", "1", "3", "_", "2", "0", "0", "2", "0", "1", "0", "1", "-", "2", "0", "0", "2", "1", "2", "3", "1", ".", "t", "i", "f">>

ID_16DAY ==
  <<"D", "L", "C", "D", "_", "v", "2", "-", "1", "_", "M", "O", "D", "I", "S", "_", "E", "V", "I", "_", "1", "6", "d", "a", "y", "_", "2", "0", "0", "2", "0", "1", "0", "1", "-", "2", "0", "0", "2", "1", "2", "3", "1">>

ID_13 ==
  <<"D", "L", "C", "D", "_", "v", "2", "-", "1", "_", "M", "O", "D", "I", "S", "_", "E", "V", "I", "_", "1", "3", "_", "2", "0", "0", "2", "0", "1", "0", "1", "-", "2", "0", "0", "2", "1", "2", "3", "1">>

START_2002 == <<"2", "0", "0", "2", "-", "0", "1", "-", "0", "1", "T", "0", "0", ":", "0", "0", ":", "0", "0", "Z">>

END_2002 == <<"2", "0", "0", "2", "-", "1", "2", "-", "3", "1", "T", "2", "3", ":", "5", "9", ":", "5", "9", "Z">>

TITLE_2002 == <<"G", "A", " ", "D", "L", "C", "D", " ", "2", "0", "0", "2", " ", "-", " ", "2", "0", "0", "2">>

\* the raster behind the href can be opened and sized
EnvReadable == item_call.raster.readable /\ item_call.probe.outcome # "raise"

\* C5, as stated: the name with run identifier "16day" yields the
\* identifier, instants and title of the scenario
C5_AsStated ==
  (ItemRan /\ basename(item_call.cog_href) = NAME_16DAY /\ EnvReadable)
    => /\ item_result.status = "ok"
       /\ item_result.item.id = ID_16DAY
       /\ datetime_to_str(item_result.item.start_datetime) = START_2002
       /\ datetime_to_str(item_result.item.end_datetime) = END_2002
       /\ item_result.item.title = TITLE_2002

\* C5, amended: the name with run identifier "16day" is rejected as not
\* matching; the name with the numeric run identifier "13" yields identifier
\* DLCD_v2-1_MODIS_EVI_13_20020101-20021231, start 2002-01-01T00:00:00Z,
\* end 2002-12-31T23:59:59Z and title "GA DLCD 2002 - 2002"; and every item
\* returned has the basename with ".tif" removed as identifier, 00:00:00 UTC
\* on the start date as start, 23:59:59 UTC on the end date as end, and
\* "GA DLCD <start year> - <end year>" as title.
C5_Amended ==
  /\ (ItemRan /\ basename(item_call.cog_href) = NAME_16DAY)
       => /\ item_result.status = "raise"
          /\ item_result.exc.type = "ValueError"
          /\ item_result.exc.message = MSG_NO_MATCH
  /\ (ItemRan /\ basename(item_call.cog_href) = NAME_13 /\ EnvReadable)
       => /\ item_result.status = "ok"
          /\ item_result.item.id = ID_13
          /\ datetime_to_str(item_result.item.start_datetime) = START_2002
          /\ datetime_to_str(item_result.item.end_datetime) = END_2002
          /\ item_result.item.title = TITLE_2002
  /\ ItemReturned
       => LET g  == re_search(ParsedName).groups
              it == item_result.item
          IN  /\ ~Contains(it.id, EXT_TIF)
              /\ (/\ endswith(basename(item_call.cog_href), EXT_TIF)
                  /\ ~Contains(SubSeq(basename(item_call.cog_href), 1,
                                      Len(basename(item_call.cog_href)) - 1),
                               EXT_TIF))
                   => it.id \o EXT_TIF = basename(item_call.cog_href)
              /\ it.start_datetime =
                   [year |-> int(g[3]), month |-> int(g[4]),
                    day |-> int(g[5]), hour |-> 0, minute |-> 0,
                    second |-> 0, tzinfo |-> "UTC"]
              /\ it.end_datetime =
                   [year |-> int(g[6]), month |-> int(g[7]),
                    day |-> int(g[8]), hour |-> 23, minute |-> 59,
                    second |-> 59, tzinfo |-> "UTC"]
              /\ it.title = <<"G", "A", " ", "D", "L", "C", "D", " ">> \o str(int(g[3]))
                              \o <<" ", "-", " ">> \o str(int(g[6]))

\* C5 witness: the numeric-run name has been built into an item
C5_Witness ==
  /\ ItemReturned
  /\ basename(item_call.cog_href) = NAME_13
  /\ item_result.item.id = ID_13

\* C6: every item returned for a name matching the pattern has its start
\* instant strictly earlier than its end instant, both aware and in UTC
C6_StartBeforeEnd ==
  ItemReturned
    => /\ Earlier(item_result.item.start_datetime,
                  item_result.item.end_datetime)
       /\ item_result.item.start_datetime.tzinfo = "UTC"
       /\ item_result.item.end_datetime.tzinfo = "UTC"

\* C7: a name that does not match the pattern fails with a ValueError whose
\* message names the offending file, and yields no item
C7_ParseErrorNamesFile ==
  (ItemRan /\ ~re_search(ParsedName).matched)
    => /\ item_result.status = "raise"
       /\ item_result.exc.type = "ValueError"
       /\ Contains(item_result.exc.message, basename(item_call.cog_href))
       /\ \A p \in DOMAIN fs : fs[p].kind # "json"

\* the version error of lines 83-84 was raised
VersionErrorRaised ==
  /\ item_result.status = "raise"
  /\ item_result.exc.type = "ValueError"
  /\ StartsAt(item_result.exc.message,
              <<"P", "r", "o", "v", "i", "d", "e", "d", " ", "v", "e", "r", "s", "i", "o", "n", " ">>, 1)

\* C8: for a name matching the pattern, the version error is raised exactly
\* when the version token with each hyphen replaced by a period differs from
\* "2.1"; then no item is returned and none is written; an item is returned
\* only for version "2.1"
C8_VersionGate ==
  (ItemRan /\ re_search(ParsedName).matched)
    => LET token   == re_search(ParsedName).groups[1]
           dotted  == [i \in DOMAIN token |->
                         IF token[i] = "-" THEN "." ELSE token[i]]
       IN  /\ VersionErrorRaised <=> (dotted # <<"2", ".", "1">>)
           /\ item_result.status = "ok" => dotted = <<"2", ".", "1">>
           /\ dotted # <<"2", ".", "1">>
                => \A p \in DOMAIN fs : fs[p].kind # "json"

\* C8 witness: a matching name with another version was rejected, and one
\* written with a hyphen was accepted
C8_WitnessRejected ==
  /\ ItemRan
  /\ re_search(ParsedName).matched
  /\ re_search(ParsedName).groups[1] = <<"2", "-", "0">>
  /\ VersionErrorRaised

\* the legend and the asset roles an item exposes
Legend(item) == item.label.classes[1].classes

RoleSet(item) == {item.assets.landcover.roles[i] :
                    i \in DOMAIN item.assets.landcover.roles}

ItemProjection(item) == item.projection

AssetProjection(item) == item.assets.landcover.projection

\* C11: in every Item the builder returns, every projection field set on the
\* Item (EPSG code, WKT string, bounding box, affine transform, pixel shape)
\* is set on the COG asset, to the same value
C11_AssetProjection ==
  ItemReturned
    => \A field \in DOMAIN ItemProjection(item_result.item) :
          /\ field \in DOMAIN AssetProjection(item_result.item)
          /\ AssetProjection(item_result.item)[field]
               = ItemProjection(item_result.item)[field]

\* the size the asset of an item carries: {} when the field is omitted
FileSize(item) == item.assets.landcover.file_size

\* the call would return an Item if the size probe answered a size: the
\* file name parses, the version and the dates are accepted and the raster
\* header opens
SizeAside ==
  create_item(item_call.cog_href, item_call.cog_href_modifier,
              item_call.raster, [outcome |-> "size", size |-> 1]).status = "ok"

\* C12: a failure to determine the byte size of the COG is not fatal (the
\* Item is returned, without the file-size field), and a failure to open the
\* raster header is fatal (the call fails and returns no Item)
C12_SizeTolerated ==
  ItemRan
    => /\ (SizeAside /\ item_call.probe.outcome # "size")
            => (ItemReturned /\ FileSize(item_result.item) = {})
       /\ ~item_call.raster.readable => ItemRaised

====
